---- MODULE Spec2Model ----
(***************************************************************************)
(* The Bencode decoder of src/bencode.rs (nom 7.1.1 combinators).          *)
(*                                                                         *)
(* Representation.                                                         *)
(*   byte        a one-character string: "i", "0", ":", "a", ...           *)
(*   &[u8]       a sequence of bytes: b"i0e" is <<"i","0","e">>            *)
(*   i64         [neg |-> BOOLEAN, mag |-> digits], the sign and the       *)
(*               decimal digits (numbers 0..9, most significant first, no  *)
(*               leading zero; zero is [neg |-> FALSE, mag |-> <<0>>]).    *)
(*               -88 is [neg |-> TRUE, mag |-> <<8,8>>].  The digits keep  *)
(*               the full 64-bit range, which TLC's integers cannot hold.  *)
(*   usize       its decimal digits, as for the magnitude of an i64        *)
(*   Bencode     Number(n)     = [type |-> "Number",     num   |-> n]      *)
(*               ByteString(b) = [type |-> "ByteString", bytes |-> b]      *)
(*               List(v)       = [type |-> "List",       items |-> v]      *)
(*               Dict(m)       = [type |-> "Dict",       map   |-> m]      *)
(*               with m a function from keys (byte sequences) to Bencode   *)
(*   IResult     Ok((rest, out))             = [ok |-> TRUE,  rest, out]   *)
(*               Err(Error{input, code})     = [ok |-> FALSE, rest, code]  *)
(*               rest is the remaining slice (for an error, the slice the  *)
(*               failing combinator was applied to), code the ErrorKind.   *)
(***************************************************************************)
EXTENDS Integers, Sequences, FiniteSets, TLC

VARIABLES
    parts,    \* the pieces the caller concatenates into the buffer
    input,    \* the byte buffer handed to parse_bencode
    pc,       \* "ready" before the call, "running" inside it, "done" after
              \* it returned, "aborted" after a stack overflow
    result,   \* the IResult the call returned (NoResult before)
    stack,    \* the open parse_list / parse_dictionary frames of the call
    ctl       \* what the innermost frame does next (stepwise execution)

vars == <<parts, input, pc, result, stack, ctl>>

NoResult == [ok |-> FALSE, rest |-> <<>>, code |-> "None"]

Idle == [mode |-> "idle"]

----------------------------------------------------------------------------
(* IResult and the Bencode enum                                            *)

Ok(rest, out) == [ok |-> TRUE, rest |-> rest, out |-> out]

Err(at, code) == [ok |-> FALSE, rest |-> at, code |-> code]

Number(n) == [type |-> "Number", num |-> n]

ByteString(b) == [type |-> "ByteString", bytes |-> b]

List(v) == [type |-> "List", items |-> v]

Dict(m) == [type |-> "Dict", map |-> m]

I64(neg, mag) == [neg |-> neg, mag |-> mag]

----------------------------------------------------------------------------
(* Decimal digits and the integer conversions of the standard library      *)

DigitChars == <<"0", "1", "2", "3", "4", "5", "6", "7", "8", "9">>

is_dec_digit(b) == \E k \in 1..10 : DigitChars[k] = b

DigitVal(b) == (CHOOSE k \in 1..10 : DigitChars[k] = b) - 1

\* 2^63 - 1, 2^63 and 2^64 - 1 as decimal digits.
I64MaxMag == <<9,2,2,3,3,7,2,0,3,6,8,5,4,7,7,5,8,0,7>>

I64MinMag == <<9,2,2,3,3,7,2,0,3,6,8,5,4,7,7,5,8,0,8>>

UsizeMaxMag == <<1,8,4,4,6,7,4,4,0,7,3,7,0,9,5,5,1,6,1,5>>

RECURSIVE StripZeros(_)
StripZeros(ds) ==
    IF Len(ds) > 1 /\ ds[1] = 0 THEN StripZeros(Tail(ds)) ELSE ds

\* a <= b for two magnitudes without leading zeros
MagLeq(a, b) ==
    \/ Len(a) < Len(b)
    \/ /\ Len(a) = Len(b)
       /\ \/ a = b
          \/ \E k \in 1..Len(a) :
                /\ a[k] < b[k]
                /\ \A j \in 1..(k - 1) : a[j] = b[j]

MagOf(bytes) == StripZeros([k \in 1..Len(bytes) |-> DigitVal(bytes[k])])

\* parse_i64 with the magnitude checked against i64::MAX for both signs
parse_i64_symmetric(bytes) ==
    IF bytes = <<>> THEN [ok |-> FALSE]
    ELSE IF Len(bytes) = 1 /\ bytes[1] \in {"+", "-"} THEN [ok |-> FALSE]
    ELSE
        LET neg == bytes[1] = "-"
            digits == IF bytes[1] \in {"+", "-"} THEN Tail(bytes) ELSE bytes
            mag == MagOf(digits)
        IN  IF \E k \in 1..Len(digits) : ~is_dec_digit(digits[k])
            THEN [ok |-> FALSE]
            ELSE IF ~MagLeq(mag, I64MaxMag)
            THEN [ok |-> FALSE]
            ELSE [ok |-> TRUE, val |-> I64(neg /\ mag # <<0>>, mag)]

\* String::from_utf8_lossy(bytes).parse::<i64>(): an optional "+" or "-",
\* then one or more decimal digits, accumulated with checked arithmetic (an
\* overflow is an error); any other byte is an invalid digit.
parse_i64(bytes) ==
    IF bytes = <<>> THEN [ok |-> FALSE]
    ELSE IF Len(bytes) = 1 /\ bytes[1] \in {"+", "-"} THEN [ok |-> FALSE]
    ELSE
        LET neg == bytes[1] = "-"
            digits == IF bytes[1] \in {"+", "-"} THEN Tail(bytes) ELSE bytes
            mag == MagOf(digits)
        IN  IF \E k \in 1..Len(digits) : ~is_dec_digit(digits[k])
            THEN [ok |-> FALSE]
            ELSE IF ~MagLeq(mag, IF neg THEN I64MinMag ELSE I64MaxMag)
            THEN [ok |-> FALSE]
            ELSE [ok |-> TRUE, val |-> I64(neg /\ mag # <<0>>, mag)]

\* str::parse::<usize> (64-bit usize): an optional "+", then one or more
\* decimal digits; digit1 hands it digits only.
parse_usize(bytes) ==
    IF bytes = <<>> THEN [ok |-> FALSE]
    ELSE IF Len(bytes) = 1 /\ bytes[1] \in {"+", "-"} THEN [ok |-> FALSE]
    ELSE
        LET digits == IF bytes[1] = "+" THEN Tail(bytes) ELSE bytes
            mag == MagOf(digits)
        IN  IF \E k \in 1..Len(digits) : ~is_dec_digit(digits[k])
            THEN [ok |-> FALSE]
            ELSE IF ~MagLeq(mag, UsizeMaxMag)
            THEN [ok |-> FALSE]
            ELSE [ok |-> TRUE, val |-> mag]

----------------------------------------------------------------------------
(* nom combinators on byte slices (the `complete` variants)                *)

\* split_at_position: the length of the longest prefix of b made of
\* decimal digits (DigitRun), of bytes other than "e" (NotERun)
RECURSIVE DigitRun(_)
DigitRun(b) ==
    IF b # <<>> /\ is_dec_digit(b[1]) THEN 1 + DigitRun(Tail(b)) ELSE 0

RECURSIVE NotERun(_)
NotERun(b) ==
    IF b # <<>> /\ b[1] # "e" THEN 1 + NotERun(Tail(b)) ELSE 0

Drop(b, n) == SubSeq(b, n + 1, Len(b))

\* tag(t) for a one-byte tag
tag(t, b) ==
    IF b # <<>> /\ b[1] = t THEN Ok(Tail(b), <<t>>) ELSE Err(b, "Tag")

\* digit1: one or more decimal digits
digit1(b) ==
    LET n == DigitRun(b)
    IN  IF n = 0 THEN Err(b, "Digit") ELSE Ok(Drop(b, n), SubSeq(b, 1, n))

\* is_not("e"): one or more bytes other than "e"
is_not_e(b) ==
    LET n == NotERun(b)
    IN  IF n = 0 THEN Err(b, "IsNot") ELSE Ok(Drop(b, n), SubSeq(b, 1, n))

\* The value of a magnitude that fits TLC's integers (at most 9 digits).
RECURSIVE NatOf(_)
NatOf(mag) ==
    IF mag = <<>> THEN 0
    ELSE 10 * NatOf(SubSeq(mag, 1, Len(mag) - 1)) + mag[Len(mag)]

\* whether a slice of `len` bytes holds `count` bytes (len is below 10^9)
Holds(len, count) == Len(count) <= 9 /\ NatOf(count) <= len

\* take that hands back what is left when the slice is too short
take_truncating(count, b) ==
    IF Holds(Len(b), count)
    THEN Ok(Drop(b, NatOf(count)), SubSeq(b, 1, NatOf(count)))
    ELSE Ok(<<>>, b)

\* take(count): exactly count bytes, or Eof
take(count, b) ==
    IF Holds(Len(b), count)
    THEN Ok(Drop(b, NatOf(count)), SubSeq(b, 1, NatOf(count)))
    ELSE Err(b, "Eof")

----------------------------------------------------------------------------
(* The four grammars and the dispatcher: what each returns when it does    *)
(* return.  The decoder recurses on the native stack, once per open list   *)
(* or dictionary (parse_bencode -> alt -> map -> parse_list -> delimited   *)
(* -> many0 -> parse_bencode), and counts no depth; how a call ends when   *)
(* the stack does not hold the recursion is stated with the caller below.  *)

RECURSIVE parse_bencode(_)
RECURSIVE parse_list(_)
RECURSIVE parse_dictionary(_)
RECURSIVE many0_bencode(_, _)
RECURSIVE many0_pair(_, _)

parse_string(bencode_bytes) ==
    LET d == digit1(bencode_bytes)
        n == parse_usize(d.out)
        c == tag(":", d.rest)
    IN  IF ~d.ok THEN d
        ELSE IF ~n.ok THEN Err(bencode_bytes, "MapRes")
        ELSE IF ~c.ok THEN c
        ELSE take(n.val, c.rest)

parse_number(bencode_bytes) ==
    LET i == tag("i", bencode_bytes)
        body == is_not_e(i.rest)
        n == parse_i64(body.out)
        e == tag("e", body.rest)
    IN  IF ~i.ok THEN i
        ELSE IF ~body.ok THEN body
        ELSE IF ~n.ok THEN Err(i.rest, "MapRes")
        ELSE IF ~e.ok THEN e
        ELSE Ok(e.rest, n.val)

\* an iteration of many0 that puts the element in front of the others
many0_bencode_iter_newest_first(i, acc, r) ==
    IF ~r.ok THEN Ok(i, acc)
    ELSE IF Len(r.rest) = Len(i) THEN Err(i, "Many0")
    ELSE many0_bencode(r.rest, <<r.out>> \o acc)

\* one iteration of many0(parse_bencode), r what the element at i decoded
\* to: many0 stops at the first element that fails (Err::Error) and
\* succeeds with what it has; an element that consumed nothing is Many0.
many0_bencode_iter(i, acc, r) ==
    IF ~r.ok THEN Ok(i, acc)
    ELSE IF Len(r.rest) = Len(i) THEN Err(i, "Many0")
    ELSE many0_bencode(r.rest, Append(acc, r.out))

\* many0(parse_bencode) from the slice i on, acc the elements so far
many0_bencode(i, acc) ==
    many0_bencode_iter(i, acc, parse_bencode(i))

parse_list(bencode_bytes) ==
    LET l == tag("l", bencode_bytes)
        m == many0_bencode(l.rest, <<>>)
        e == tag("e", m.rest)
    IN  IF ~l.ok THEN l
        ELSE IF ~m.ok THEN m
        ELSE IF ~e.ok THEN e
        ELSE Ok(e.rest, m.out)

\* pair(parse_string, parse_bencode)
pair_string_bencode(i) ==
    LET k == parse_string(i)
        v == parse_bencode(k.rest)
    IN  IF ~k.ok THEN k
        ELSE IF ~v.ok THEN v
        ELSE Ok(v.rest, <<k.out, v.out>>)

\* one iteration of many0(pair(..)), r what the pair at i decoded to
many0_pair_iter(i, acc, r) ==
    IF ~r.ok THEN Ok(i, acc)
    ELSE IF Len(r.rest) = Len(i) THEN Err(i, "Many0")
    ELSE many0_pair(r.rest, Append(acc, r.out))

\* many0(pair(parse_string, parse_bencode)) from the slice i on
many0_pair(i, acc) ==
    many0_pair_iter(i, acc, pair_string_bencode(i))

\* BTreeMap::insert: a later value for a key replaces the earlier one
Insert(m, k, v) ==
    [x \in DOMAIN m \cup {k} |-> IF x = k THEN v ELSE m[x]]

\* an insert that leaves an entry already present alone
InsertFirst(m, k, v) ==
    IF k \in DOMAIN m THEN m ELSE Insert(m, k, v)

\* elements.into_iter().collect::<BTreeMap<_, _>>()
RECURSIVE CollectFrom(_, _)
CollectFrom(m, elements) ==
    IF elements = <<>> THEN m
    ELSE CollectFrom(Insert(m, elements[1][1], elements[1][2]), Tail(elements))

RECURSIVE CollectFirstFrom(_, _)
CollectFirstFrom(m, elements) ==
    IF elements = <<>> THEN m
    ELSE CollectFirstFrom(InsertFirst(m, elements[1][1], elements[1][2]),
                          Tail(elements))

EmptyMap == [x \in {} |-> x]

\* collect that keeps the first value seen for a key
collect_keep_first(elements) == CollectFirstFrom(EmptyMap, elements)

collect(elements) == CollectFrom(EmptyMap, elements)

\* parse_dictionary without the closing tag("e")
parse_dictionary_unclosed(bencode_bytes) ==
    LET d == tag("d", bencode_bytes)
        m == many0_pair(d.rest, <<>>)
    IN  IF ~d.ok THEN d
        ELSE IF ~m.ok THEN m
        ELSE Ok(m.rest, collect(m.out))

parse_dictionary(bencode_bytes) ==
    LET d == tag("d", bencode_bytes)
        m == many0_pair(d.rest, <<>>)
        e == tag("e", m.rest)
    IN  IF ~d.ok THEN d
        ELSE IF ~m.ok THEN m
        ELSE IF ~e.ok THEN e
        ELSE Ok(e.rest, collect(m.out))

\* alt((number, string, list, dictionary)): the first success; when all
\* four fail, the error of the last alternative (Error::or keeps the later
\* error and Error::append adds nothing).
alt_bencode(n, s, l, d) ==
    IF n.ok THEN Ok(n.rest, Number(n.out))
    ELSE IF s.ok THEN Ok(s.rest, ByteString(s.out))
    ELSE IF l.ok THEN Ok(l.rest, List(l.out))
    ELSE IF d.ok THEN Ok(d.rest, Dict(d.out))
    ELSE d

\* the four alternatives in the order of the source; an alternative is
\* evaluated only when alt_bencode asks for it
parse_bencode(bencode_bytes) ==
    alt_bencode(parse_number(bencode_bytes),
                parse_string(bencode_bytes),
                parse_list(bencode_bytes),
                parse_dictionary(bencode_bytes))

----------------------------------------------------------------------------
(* The caller: a buffer put together from pieces, then one decode.  The     *)
(* tests build their inputs this way: format!("l{}{}e", a, b).as_bytes().   *)

RECURSIVE Concat(_)
Concat(ps) == IF ps = <<>> THEN <<>> ELSE ps[1] \o Concat(Tail(ps))

SeqsUpTo(S, n) == UNION {[1..k -> S] : k \in 0..n}

\* format!("{}", n) for n >= 0, as bytes
RECURSIVE Decimal(_)
Decimal(n) ==
    IF n < 10 THEN <<DigitChars[n + 1]>>
    ELSE Decimal(n \div 10) \o <<DigitChars[(n % 10) + 1]>>

\* the encoding "<len>:<bytes>" of a byte string
StrEnc(b) == Decimal(Len(b)) \o <<":">> \o b

\* an i64 from a (small) integer of the model, and its decimal text
FromInt(k) ==
    I64(k < 0, [j \in 1..Len(Decimal(IF k < 0 THEN -k ELSE k)) |->
                    DigitVal(Decimal(IF k < 0 THEN -k ELSE k)[j])])

I64Text(n) ==
    (IF n.neg THEN <<"-">> ELSE <<>>)
        \o [j \in 1..Len(n.mag) |-> DigitChars[n.mag[j] + 1]]

Ready(ps) ==
    /\ parts = ps
    /\ input = Concat(ps)
    /\ pc = "ready"
    /\ result = NoResult
    /\ stack = <<>>
    /\ ctl = Idle

\* the stack overflowed under parse_bencode: the guard page is hit, the
\* process is aborted and the call does not return
Abort == [ok |-> FALSE, rest |-> <<>>, code |-> "StackOverflow"]

IsAbort(r) == ~r.ok /\ r.code = "StackOverflow"

\* alt reaches parse_list or parse_dictionary and that one opens: many0 in
\* it calls parse_bencode again, one level further down the stack
Recurses(b) ==
    /\ ~parse_number(b).ok
    /\ ~parse_string(b).ok
    /\ tag("l", b).ok \/ tag("d", b).ok

\* how a call of parse_bencode on b can end.  What the stack holds is the
\* caller's, and the frames under an open list or dictionary differ from
\* build to build and from element to element, so a call that recurses
\* may overflow the stack wherever it stands; one that does not recurse
\* needs the frames of a single number or byte string and returns
Outcomes(b) ==
    {parse_bencode(b)} \cup (IF Recurses(b) THEN {Abort} ELSE {})

\* parse_bencode(input), as one step: it returns, or the stack overflows
Decode ==
    /\ pc = "ready"
    /\ \E o \in Outcomes(input) :
          IF IsAbort(o)
          THEN pc' = "aborted" /\ result' = result
          ELSE pc' = "done" /\ result' = o
    /\ UNCHANGED <<parts, input, stack, ctl>>

Next == Decode

----------------------------------------------------------------------------
(* Byte strings: parts = <<length text, ":", the bytes that follow>>       *)

MaxDeclared == 3

MaxBody == 4

BodyBytes == {"a", "e", "0", ":"}

\* lengths no slice can supply: 2^32, 2^64 - 1, and 2^64 (not a usize)
HugeLens ==
    { <<"4","2","9","4","9","6","7","2","9","6">>,
      [j \in 1..20 |-> DigitChars[UsizeMaxMag[j] + 1]],
      <<"1","8","4","4","6","7","4","4","0","7","3","7","0","9","5","5","1","6","1","6">> }

LenTexts ==
    {Decimal(n) : n \in 0..MaxDeclared}
        \cup {<<"0">> \o Decimal(n) : n \in 0..1}
        \cup HugeLens

StrInit ==
    \E t \in LenTexts, b \in SeqsUpTo(BodyBytes, MaxBody) :
        Ready(<<t, <<":">>, b>>)

SpecStr == StrInit /\ [][Next]_vars

----------------------------------------------------------------------------
(* Integers: parts = <<"i", the bytes up to the terminator, the rest>>     *)

MaxAbs == 12

MaxNumBody == 3

NumBytes == {"-", "+", "0", "7", "a"}

I64Samples ==
    {FromInt(k) : k \in (-MaxAbs)..MaxAbs}
        \cup {I64(FALSE, I64MaxMag), I64(TRUE, I64MinMag),
              I64(FALSE, <<1,0,0,0,0,0,0,0,0,0,0>>)}

\* one past each end of the i64 range
I64Beyond == {<<"-">> \o I64Text(I64(FALSE, <<9,2,2,3,3,7,2,0,3,6,8,5,4,7,7,5,8,0,9>>)),
              I64Text(I64(FALSE, I64MinMag))}

NumBodies ==
    {I64Text(n) : n \in I64Samples}
        \cup I64Beyond
        \cup SeqsUpTo(NumBytes, MaxNumBody)

NumTails == {<<"e">>, <<>>, <<"e", "e">>, <<"e", "7">>}

NumInit ==
    \E b \in NumBodies, t \in NumTails : Ready(<<<<"i">>, b, t>>)

SpecNum == NumInit /\ [][Next]_vars

----------------------------------------------------------------------------
(* Lists: parts = <<"l", e1, ..., ek, close, trail>>, close "e" or nothing *)

MaxElems == 3

GoodElems ==
    { <<"i","0","e">>,
      <<"i","-","7","e">>,
      <<"0",":">>,
      <<"2",":","a","e">>,
      <<"l","e">>,
      <<"l","i","0","e","l","1",":","a","e","e">>,
      <<"d","1",":","a","l","d","e","e","e">> }

BadElems ==
    { <<"-","1",":","a">>,
      <<"i","e">>,
      <<"x">> }

Trails == {<<>>, <<"x">>, <<"i","0","e">>}

ListInit ==
    \E es \in SeqsUpTo(GoodElems \cup BadElems, MaxElems),
       close \in {<<"e">>, <<>>},
       t \in Trails :
        Ready(<<<<"l">>>> \o es \o <<close, t>>)

SpecList == ListInit /\ [][Next]_vars

ElemsOf(ps) == SubSeq(ps, 2, Len(ps) - 2)

CloseOf(ps) == ps[Len(ps) - 1]

TrailOf(ps) == ps[Len(ps)]

----------------------------------------------------------------------------
(* Dictionaries: parts = <<"d", k1, v1, ..., kn, vn, bad, close, trail>>,   *)
(* bad a piece that is no byte string (or nothing) in the next key position *)

MaxPairs == 3

KeyNames == {<<"a">>, <<"b">>, <<>>}

DictVals ==
    { <<"i","0","e">>,
      <<"1",":","a">>,
      <<"d","1",":","a","l","i","7","e","e","e">> }

BadKeys ==
    { <<"i","0","e">>,
      <<"l">>,
      <<"d">>,
      <<"-","1",":","a">>,
      <<"1","a">>,
      <<"9",":","a">> }

DictTrails == {<<>>, <<"x">>}

Flatten(ps) == [j \in 1..(2 * Len(ps)) |-> ps[(j + 1) \div 2][2 - (j % 2)]]

DictInit ==
    \E ps \in SeqsUpTo({StrEnc(k) : k \in KeyNames} \X DictVals, MaxPairs),
       bad \in BadKeys \cup {<<>>},
       close \in {<<"e">>, <<>>},
       t \in DictTrails :
        Ready(<<<<"d">>>> \o Flatten(ps) \o <<bad, close, t>>)

SpecDict == DictInit /\ [][Next]_vars

NumPairs(ps) == (Len(ps) - 4) \div 2

KeyTokenOf(ps, j) == ps[2 * j]

ValTokenOf(ps, j) == ps[2 * j + 1]

BadOf(ps) == ps[Len(ps) - 2]

----------------------------------------------------------------------------
(* Any of the buffers above, decoded in one step                           *)

Init == StrInit \/ NumInit \/ ListInit \/ DictInit

Spec == Init /\ [][Next]_vars

----------------------------------------------------------------------------
(* The same decode, one combinator at a time.                              *)
(*   stack  one frame per open parse_list / parse_dictionary call:         *)
(*            [fn, start, i, acc, key]                                     *)
(*          start the slice the call was given, i the slice at which the   *)
(*          current iteration of many0 began, acc what many0 has collected, *)
(*          key the key of the pair being read (dictionary)                *)
(*   ctl    [mode |-> "call", arg]      parse_bencode is entered on arg    *)
(*          [mode |-> "key"]            the next pair of the dictionary    *)
(*          [mode |-> "ret", arg, res]  parse_bencode(arg) returned res    *)

MaxParts == 4

StepPieces ==
    { <<"l">>, <<"d">>, <<"e">>, <<"i","0","e">>, <<"1",":","a">>, <<"-">> }

StepInit == \E ps \in SeqsUpTo(StepPieces, MaxParts) : Ready(ps)

Call(arg) == [mode |-> "call", arg |-> arg]

Ret(arg, res) == [mode |-> "ret", arg |-> arg, res |-> res]

Frame(fn, start, i, acc, key) ==
    [fn |-> fn, start |-> start, i |-> i, acc |-> acc, key |-> key]

Top == stack[Len(stack)]

Pop == SubSeq(stack, 1, Len(stack) - 1)

ReplaceTop(f) == [stack EXCEPT ![Len(stack)] = f]

Start ==
    /\ pc = "ready"
    /\ pc' = "running"
    /\ ctl' = Call(input)
    /\ UNCHANGED <<parts, input, result, stack>>

\* alt, first alternative: map(parse_number, Bencode::Number)
CallNumber ==
    /\ pc = "running" /\ ctl.mode = "call"
    /\ parse_number(ctl.arg).ok
    /\ ctl' = Ret(ctl.arg, Ok(parse_number(ctl.arg).rest,
                              Number(parse_number(ctl.arg).out)))
    /\ UNCHANGED <<parts, input, pc, result, stack>>

\* alt, second alternative: map(parse_string, Bencode::ByteString)
CallString ==
    /\ pc = "running" /\ ctl.mode = "call"
    /\ ~parse_number(ctl.arg).ok
    /\ parse_string(ctl.arg).ok
    /\ ctl' = Ret(ctl.arg, Ok(parse_string(ctl.arg).rest,
                              ByteString(parse_string(ctl.arg).out)))
    /\ UNCHANGED <<parts, input, pc, result, stack>>

\* alt, third alternative: parse_list consumes tag("l") and enters many0
EnterList ==
    /\ pc = "running" /\ ctl.mode = "call"
    /\ ~parse_number(ctl.arg).ok
    /\ ~parse_string(ctl.arg).ok
    /\ tag("l", ctl.arg).ok
    /\ stack' = Append(stack, Frame("list", ctl.arg, Tail(ctl.arg), <<>>, <<>>))
    /\ ctl' = Call(Tail(ctl.arg))
    /\ UNCHANGED <<parts, input, pc, result>>

\* alt, fourth alternative: parse_dictionary consumes tag("d")
EnterDict ==
    /\ pc = "running" /\ ctl.mode = "call"
    /\ ~parse_number(ctl.arg).ok
    /\ ~parse_string(ctl.arg).ok
    /\ ~tag("l", ctl.arg).ok
    /\ tag("d", ctl.arg).ok
    /\ stack' = Append(stack, Frame("dict", ctl.arg, Tail(ctl.arg), <<>>, <<>>))
    /\ ctl' = [mode |-> "key"]
    /\ UNCHANGED <<parts, input, pc, result>>

\* a grammar is called at or under an open list or dictionary (an element,
\* a key, a value, or the list or dictionary that opens now) and the stack
\* does not hold its frames: the guard page is hit and the process is
\* aborted; parse_bencode does not return
StackOverflow ==
    /\ pc = "running"
    /\ \/ ctl.mode = "call" /\ (stack # <<>> \/ Recurses(ctl.arg))
       \/ ctl.mode = "key"
    /\ pc' = "aborted"
    /\ ctl' = Idle
    /\ UNCHANGED <<parts, input, result, stack>>

\* all four alternatives fail: the error of the last one, tag("d")
NoGrammar ==
    /\ pc = "running" /\ ctl.mode = "call"
    /\ ~parse_number(ctl.arg).ok
    /\ ~parse_string(ctl.arg).ok
    /\ ~tag("l", ctl.arg).ok
    /\ ~tag("d", ctl.arg).ok
    /\ ctl' = Ret(ctl.arg, tag("d", ctl.arg))
    /\ UNCHANGED <<parts, input, pc, result, stack>>

\* many0 of parse_list: an element was decoded; an element that consumed
\* nothing fails the list with Many0, and alt goes on to parse_dictionary
ListElement ==
    /\ pc = "running" /\ ctl.mode = "ret" /\ stack # <<>>
    /\ Top.fn = "list"
    /\ ctl.res.ok
    /\ IF Len(ctl.res.rest) = Len(Top.i)
       THEN /\ stack' = Pop
            /\ ctl' = Ret(Top.start, tag("d", Top.start))
       ELSE /\ stack' = ReplaceTop([Top EXCEPT !.i = ctl.res.rest,
                                               !.acc = Append(@, ctl.res.out)])
            /\ ctl' = Call(ctl.res.rest)
    /\ UNCHANGED <<parts, input, pc, result>>

\* many0 of parse_list ends at the element that failed; then tag("e"), and
\* when that fails alt goes on to parse_dictionary, whose tag("d") fails
ListClose ==
    /\ pc = "running" /\ ctl.mode = "ret" /\ stack # <<>>
    /\ Top.fn = "list"
    /\ ~ctl.res.ok
    /\ stack' = Pop
    /\ ctl' = IF tag("e", Top.i).ok
              THEN Ret(Top.start, Ok(Tail(Top.i), List(Top.acc)))
              ELSE Ret(Top.start, tag("d", Top.start))
    /\ UNCHANGED <<parts, input, pc, result>>

\* pair(parse_string, parse_bencode): the key, then the value is entered
DictKey ==
    /\ pc = "running" /\ ctl.mode = "key"
    /\ parse_string(Top.i).ok
    /\ stack' = ReplaceTop([Top EXCEPT !.key = parse_string(Top.i).out])
    /\ ctl' = Call(parse_string(Top.i).rest)
    /\ UNCHANGED <<parts, input, pc, result>>

\* many0 of parse_dictionary: a pair was decoded
DictValue ==
    /\ pc = "running" /\ ctl.mode = "ret" /\ stack # <<>>
    /\ Top.fn = "dict"
    /\ ctl.res.ok
    /\ IF Len(ctl.res.rest) = Len(Top.i)
       THEN /\ stack' = Pop
            /\ ctl' = Ret(Top.start, Err(Top.i, "Many0"))
       ELSE /\ stack' = ReplaceTop([Top EXCEPT
                                        !.i = ctl.res.rest,
                                        !.acc = Append(@, <<Top.key, ctl.res.out>>)])
            /\ ctl' = [mode |-> "key"]
    /\ UNCHANGED <<parts, input, pc, result>>

\* many0 of parse_dictionary ends at the pair whose key or value failed,
\* back at the start of that pair; then tag("e") and the collect
DictClose ==
    /\ pc = "running" /\ stack # <<>>
    /\ Top.fn = "dict"
    /\ \/ ctl.mode = "key" /\ ~parse_string(Top.i).ok
       \/ ctl.mode = "ret" /\ ~ctl.res.ok
    /\ stack' = Pop
    /\ ctl' = IF tag("e", Top.i).ok
              THEN Ret(Top.start, Ok(Tail(Top.i), Dict(collect(Top.acc))))
              ELSE Ret(Top.start, tag("e", Top.i))
    /\ UNCHANGED <<parts, input, pc, result>>

\* the outermost parse_bencode returns to the caller
Finish ==
    /\ pc = "running" /\ ctl.mode = "ret" /\ stack = <<>>
    /\ result' = ctl.res
    /\ pc' = "done"
    /\ ctl' = Idle
    /\ UNCHANGED <<parts, input, stack>>

StepNext ==
    \/ Start
    \/ CallNumber
    \/ CallString
    \/ EnterList
    \/ EnterDict
    \/ StackOverflow
    \/ NoGrammar
    \/ ListElement
    \/ ListClose
    \/ DictKey
    \/ DictValue
    \/ DictClose
    \/ Finish

\* the call runs to its end without being suspended: a synchronous function
StepSpec == StepInit /\ [][StepNext]_vars /\ WF_vars(StepNext)

\* the stepwise decode ends as parse_bencode ends
StepsAgree ==
    /\ pc = "done" => result \in Outcomes(input) /\ ~IsAbort(result)
    /\ pc = "aborted" => Abort \in Outcomes(input)

----------------------------------------------------------------------------
(* Properties of the recursion (StepSpec)                                  *)

Max(S) == CHOOSE x \in S : \A y \in S : y <= x

\* how deep the lists and dictionaries of a value are nested
RECURSIVE NestingOf(_)
NestingOf(v) ==
    IF v.type = "List"
    THEN 1 + Max({0} \cup {NestingOf(v.items[k]) : k \in DOMAIN v.items})
    ELSE IF v.type = "Dict"
    THEN 1 + Max({0} \cup {NestingOf(v.map[k]) : k \in DOMAIN v.map})
    ELSE 0

\* C9: there is a maximum nesting depth D beyond which the decode fails
\* cleanly with an error result, so the recursion never goes deeper than D:
\* whatever the stack holds, the recursion stays within it (no call of a
\* decode is one at which the stack can run out) and the decode of an
\* input never ends in a stack overflow.
C9_NestingLimit ==
    /\ ~ENABLED StackOverflow
    /\ pc # "aborted"

IsSuffix(s, t) ==
    Len(s) <= Len(t) /\ s = SubSeq(t, Len(t) - Len(s) + 1, Len(t))

\* a decoded value consumed at least one byte, a recursive call works on a
\* slice shorter than the one of the call around it, and many0 never meets
\* an element that consumed nothing
StepProgress ==
    /\ (ctl.mode = "ret" /\ ctl.res.ok) =>
          Len(ctl.res.rest) < Len(ctl.arg) /\ IsSuffix(ctl.res.rest, ctl.arg)
    /\ (ctl.mode = "ret" /\ ~ctl.res.ok) => ctl.res.code # "Many0"
    /\ (ctl.mode = "call" /\ stack # <<>>) =>
          Len(ctl.arg) < Len(Top.start) /\ IsSuffix(ctl.arg, Top.start)
    /\ pc = "done" => IsSuffix(result.rest, input)

\* C10: every call of parse_bencode returns success or failure: each decoded
\* value (and pair) consumes at least one byte, every recursive call works
\* on a strictly shorter slice, the repetition never iterates without
\* progress, and a call that has not returned yet can take its next step.
C10_AlwaysReturns ==
    /\ StepProgress
    /\ pc = "done" \/ ENABLED StepNext

----------------------------------------------------------------------------
(* Properties of byte strings (SpecStr)                                    *)

\* C1: for a declared length n and the bytes b after "<n>:", the decode
\* succeeds exactly when b holds at least n bytes, and then yields
\* ByteString(first n bytes of b) with the bytes after them as remainder;
\* with fewer bytes (or a length no slice can supply) it fails.  The
\* decode of a byte string enters no list or dictionary: it returns.
C1_ByteStringExact ==
    /\ pc # "aborted"
    /\ pc = "done" =>
        LET t == parts[1]
            b == parts[3]
        IN  /\ \A n \in 0..MaxDeclared :
                t \in {Decimal(n), <<"0">> \o Decimal(n)} =>
                    /\ result.ok <=> Len(b) >= n
                    /\ result.ok =>
                         result = Ok(SubSeq(b, n + 1, Len(b)),
                                     ByteString(SubSeq(b, 1, n)))
            /\ t \in HugeLens => ~result.ok

C1_Witness ==
    /\ pc = "done"
    /\ parts[1] = Decimal(2)
    /\ Len(parts[3]) = 4
    /\ result.ok
    /\ result.out = ByteString(SubSeq(parts[3], 1, 2))
    /\ Len(result.rest) = 2

----------------------------------------------------------------------------
(* Properties of integers (SpecNum)                                        *)

\* C2: for every i64 n (zero, negatives and both ends of the range among
\* them), decoding "i<n>e" yields Number(n) with nothing left.
C2_IntegerDecodes ==
    /\ pc # "aborted"
    /\ pc = "done" =>
        \A n \in I64Samples :
            input = <<"i">> \o I64Text(n) \o <<"e">> =>
                result = Ok(<<>>, Number(n))

C2_Witness ==
    /\ pc = "done"
    /\ input = <<"i">> \o I64Text(I64(TRUE, I64MinMag)) \o <<"e">>
    /\ result.ok
    /\ result.out = Number(I64(TRUE, I64MinMag))

\* the bytes between the leading "i" and the first "e"
NumberBody(b) == SubSeq(b, 2, 1 + NotERun(Tail(b)))

\* an optional "-", then one or more decimal digits, and nothing else
MinusDigits(b) ==
    LET ds == IF b # <<>> /\ b[1] = "-" THEN Tail(b) ELSE b
    IN  /\ ds # <<>>
        /\ \A k \in 1..Len(ds) : is_dec_digit(ds[k])

\* C3: an input that begins with "i" decodes to a Number only if the bytes
\* between the "i" and the first "e" are an optional "-" followed by one or
\* more decimal digits; any other content makes the decode fail.
C3_OnlyMinusAndDigits ==
    (pc = "done" /\ input # <<>> /\ input[1] = "i" /\ result.ok) =>
        MinusDigits(NumberBody(input))

----------------------------------------------------------------------------
(* Properties of lists (SpecList)                                          *)

AllGood(es) == \A k \in 1..Len(es) : es[k] \in GoodElems

\* C4: "l" e1 ... ek "e" t, every ei well formed, decodes to the list of
\* the values the ei decode to on their own, in input order, nested lists
\* and dictionaries included (fully decoded, as deep as on their own), and
\* leaves exactly t.
C4_ListInOrder ==
    (pc = "done" /\ CloseOf(parts) = <<"e">> /\ AllGood(ElemsOf(parts))) =>
        LET es == ElemsOf(parts)
        IN  /\ \A k \in 1..Len(es) :
                    parse_bencode(es[k]).ok /\ parse_bencode(es[k]).rest = <<>>
            /\ result = Ok(TrailOf(parts),
                           List([k \in 1..Len(es) |-> parse_bencode(es[k]).out]))
            /\ \A k \in 1..Len(es) :
                    NestingOf(result.out) > NestingOf(parse_bencode(es[k]).out)

C4_Witness ==
    /\ pc = "done"
    /\ CloseOf(parts) = <<"e">>
    /\ AllGood(ElemsOf(parts))
    /\ Len(ElemsOf(parts)) = 3
    /\ ElemsOf(parts)[1] = <<"l","i","0","e","l","1",":","a","e","e">>
    /\ ElemsOf(parts)[2] = <<"i","-","7","e">>
    /\ TrailOf(parts) = <<"x">>
    /\ result.ok
    /\ Len(result.out.items) = 3
    /\ NestingOf(result.out) = 3
    /\ result.out.items[2] = Number(I64(TRUE, <<7>>))

\* the first element of a list that is not well formed (0 when all are)
FirstBad(es) ==
    IF AllGood(es) THEN 0
    ELSE CHOOSE k \in 1..Len(es) :
            es[k] \in BadElems /\ \A j \in 1..(k - 1) : es[j] \in GoodElems

\* the slice the decoder of element k of the list is applied to
SliceAtElem(ps, k) == Concat(SubSeq(ps, k + 1, Len(ps)))

\* C7: when an element of a list fails to decode, the decode of the list
\* fails and the caller receives the failure of that element unchanged:
\* the same error kind at the same position.
C7_InnerFailureUnchanged ==
    (pc = "done" /\ ~AllGood(ElemsOf(parts))) =>
        /\ ~result.ok
        /\ result = parse_bencode(SliceAtElem(parts, FirstBad(ElemsOf(parts))))

\* the error kind and its offset from the start of the buffer
ErrSig(r, buf) == <<r.code, Len(buf) - Len(r.rest)>>

MalformedLists == {<<"l">> \o bad \o <<"e">> : bad \in BadElems}

\* C8: a list whose input ends before its closing "e" fails, and that
\* failure differs (in kind or in position) from the failure of a list
\* with a malformed element.
C8_UnterminatedDistinguishable ==
    (/\ pc = "done"
     /\ AllGood(ElemsOf(parts))
     /\ CloseOf(parts) = <<>>
     /\ TrailOf(parts) = <<>>) =>
        /\ ~result.ok
        /\ \A m \in MalformedLists :
              ErrSig(result, input) # ErrSig(parse_bencode(m), m)

----------------------------------------------------------------------------
(* Properties of dictionaries (SpecDict)                                   *)

KeyNameOf(ps, j) == CHOOSE k \in KeyNames : StrEnc(k) = KeyTokenOf(ps, j)

\* the last pair of the input that carries key k
LastWith(ps, k) ==
    CHOOSE j \in 1..NumPairs(ps) :
        /\ KeyNameOf(ps, j) = k
        /\ \A h \in (j + 1)..NumPairs(ps) : KeyNameOf(ps, h) # k

\* each distinct key, mapped to the value of its last occurrence
LastWins(ps) ==
    [k \in {KeyNameOf(ps, j) : j \in 1..NumPairs(ps)} |->
        parse_bencode(ValTokenOf(ps, LastWith(ps, k))).out]

Perms(n) == {f \in [1..n -> 1..n] : \A a, b \in 1..n : a # b => f[a] # f[b]}

\* the dictionary of ps with its pairs listed in the order f
Reordered(ps, f) ==
    <<"d">>
        \o Concat([j \in 1..(2 * NumPairs(ps)) |->
                      ps[2 * f[(j + 1) \div 2] + 1 - (j % 2)]])
        \o <<"e">>

DistinctKeys(ps) ==
    \A a, b \in 1..NumPairs(ps) : a # b => KeyNameOf(ps, a) # KeyNameOf(ps, b)

\* C5: "d" (key value)* "e" decodes whatever the order of the keys and
\* however often a key repeats (no error result is returned for it), to
\* the mapping from each distinct key to the value of its last occurrence
\* (one entry per key); the same pairs (distinct keys) in another order
\* decode to an equal Dict.
C5_LastKeyWins ==
    /\ (pc = "done" /\ BadOf(parts) = <<>> /\ CloseOf(parts) = <<"e">>) =>
          /\ result = Ok(TrailOf(parts), Dict(LastWins(parts)))
          /\ DOMAIN result.out.map =
                {KeyNameOf(parts, j) : j \in 1..NumPairs(parts)}
          /\ DistinctKeys(parts) =>
                \A f \in Perms(NumPairs(parts)) :
                    parse_bencode(Reordered(parts, f)) = Ok(<<>>, result.out)
    /\ (pc = "ready" /\ BadOf(parts) = <<>> /\ CloseOf(parts) = <<"e">>) =>
          \A o \in Outcomes(input) : ~IsAbort(o) => o.ok

C5_Witness ==
    /\ pc = "done"
    /\ BadOf(parts) = <<>>
    /\ CloseOf(parts) = <<"e">>
    /\ NumPairs(parts) = 3
    /\ KeyNameOf(parts, 1) = <<"b">>
    /\ KeyNameOf(parts, 2) = <<"a">>
    /\ KeyNameOf(parts, 3) = <<"b">>
    /\ ValTokenOf(parts, 1) = <<"d","1",":","a","l","i","7","e","e","e">>
    /\ ValTokenOf(parts, 2) = <<"1",":","a">>
    /\ ValTokenOf(parts, 3) = <<"1",":","a">>
    /\ result.ok
    /\ DOMAIN result.out.map = {<<"a">>, <<"b">>}
    /\ result.out.map[<<"b">>] = ByteString(<<"a">>)

\* C6: after "d" and zero or more well-formed pairs, a next piece that is
\* neither the closing "e" nor a byte string (an integer, a list or dict
\* opener, a length with a leading "-") makes the decode fail: no call on
\* such a buffer returns a value, Dict or other.
C6_KeyMustBeByteString ==
    /\ (pc = "done" /\ BadOf(parts) # <<>>) => ~result.ok
    /\ (pc = "ready" /\ BadOf(parts) # <<>>) =>
          \A o \in Outcomes(input) : ~o.ok

C6_Witness ==
    /\ pc = "done"
    /\ NumPairs(parts) = 2
    /\ BadOf(parts) = <<"i","0","e">>
    /\ CloseOf(parts) = <<"e">>
    /\ ValTokenOf(parts, 1) = <<"d","1",":","a","l","i","7","e","e","e">>
    /\ ~result.ok
    /\ result.code = "Tag"

====
